---------------------------- MODULE Spec2Model ----------------------------
(***************************************************************************)
(* A model of src/app.js, the data loader and renderer of the "MCP I Use"  *)
(* site: the concurrent loader (loadJSON, loadAllData), the combination    *)
(* builder (getClientCombinations), the support-string parser              *)
(* (parseSupport), the three render passes and the click handlers.         *)
(*                                                                         *)
(* JSON documents are records (a JavaScript object is a function from its  *)
(* keys); a field absent from a document is a key absent from the record's *)
(* DOMAIN.  Text that the code takes apart (support strings) is a sequence *)
(* of one-character strings; identifiers and display texts are strings.    *)
(***************************************************************************)
EXTENDS Integers, Sequences, FiniteSets, TLC

VARIABLES
    server,         \* environment: what a fetch of each resource may answer
    pc,             \* where init() stands
    pending,        \* the fetches issued by loadAllData that have not settled
    answers,        \* history: the body each settled fetch answered (Null: it failed)
    ides,           \* let ides = {}: sequence of <<id, document>>, insertion order
    aiClients,      \* let aiClients = {}: function from the stored ids
    features,       \* let features = {}: function from the stored ids
    changelog,      \* let changelog = { entries: [] }
    pluginsView,    \* #plugins-matrix
    featuresView,   \* #features-matrix
    changelogView,  \* #changelog-list
    renderLog,      \* history: the render passes run so far, in order
    expanded,       \* the group headers carrying class "expanded"
    hiddenRows,     \* the group rows whose style.display is "none"
    groupClicks,    \* history: clicks received by each group header
    modal,          \* the #source-modal overlay
    listeners,      \* backdrop and keydown listeners installed by showSourceModal
    lastClick,      \* history: the feature cell clicked last, and what it carried
    showNote,       \* the plugin-matrix cells carrying class "show-note"
    input,          \* parseSupport: the argument
    output          \* parseSupport: the value returned

loadVars == <<server, pc, pending, answers, ides, aiClients, features, changelog>>
viewVars == <<pluginsView, featuresView, changelogView, renderLog>>
uiVars == <<expanded, hiddenRows, groupClicks, modal, listeners, lastClick, showNote>>
parseVars == <<input, output>>
vars == <<loadVars, viewVars, uiVars, parseVars>>

----------------------------------------------------------------------------
(* Sequence helpers *)

Range(s) == {s[i] : i \in 1..Len(s)}

Contains(s, x) == \E i \in 1..Len(s) : s[i] = x

\* the position of the first occurrence of x in s (0 when absent)
IndexOf(s, x) == IF Contains(s, x) THEN CHOOSE i \in 1..Len(s) : s[i] = x /\ \A j \in 1..(i - 1) : s[j] # x ELSE 0

RECURSIVE Flatten(_)
Flatten(ss) == IF ss = <<>> THEN <<>> ELSE Head(ss) \o Flatten(Tail(ss))

----------------------------------------------------------------------------
(* The program's constants.  The three file lists are prefixes or samples  *)
(* of the lists of the source, short enough to enumerate every completion  *)
(* order of the fetches.                                                   *)

IDE_FILES == <<"vscode", "cursor", "xcode">>

AI_CLIENT_FILES == <<"cline", "native">>

FEATURE_FILES == <<"tools", "roots">>

\* the null of JavaScript, a record so that it compares with documents
Null == [null |-> TRUE]

----------------------------------------------------------------------------
(* The environment: the documents under ./data.  Every resource is a JSON  *)
(* object of the shape the site documents; the alternatives cover a        *)
(* missing compatibility list, a client identifier that names no client    *)
(* file, a dangling combination key, a missing stats or sources map, a     *)
(* stale "id" field, both forms of a source and two interfaces shown      *)
(* under one display name.                                                 *)

Resources ==
    {<<"ides", id>> : id \in Range(IDE_FILES)}
        \cup {<<"ai-clients", id>> : id \in Range(AI_CLIENT_FILES)}
        \cup {<<"features", id>> : id \in Range(FEATURE_FILES)}
        \cup {<<"changelog", "changelog">>}

IdeBodies(id) ==
    CASE id = "vscode" ->
            { [id |-> "vscode", name |-> "VS Code", compatible_ai_clients |-> <<"cline", "native", "jetbrains-ai">>],
              [id |-> "vscode", name |-> "VS Code", compatible_ai_clients |-> <<>>] }
      [] id = "cursor" ->
            { [id |-> "cursor", name |-> "Cursor", compatible_ai_clients |-> <<"native", "cline">>],
              [id |-> "cursor", name |-> "Cursor", compatible_ai_clients |-> <<"native">>],
              [id |-> "cursor", name |-> "VS Code", compatible_ai_clients |-> <<"native", "cline">>] }
      [] OTHER ->
            { [id |-> "xcode", name |-> "Xcode", compatible_ai_clients |-> <<"cline">>],
              [name |-> "Xcode"] }

AiClientBodies(id) ==
    CASE id = "cline" -> { [id |-> "cline", name |-> "Cline"] }
      [] OTHER ->
            { [id |-> "native", name |-> "Native", native_names |-> [vscode |-> "Copilot Chat", cursor |-> "Cursor Agent"]],
              [id |-> "native", name |-> "Native"] }

FeatureBodies(id) ==
    CASE id = "tools" ->
            { [id |-> "tools", title |-> "Tools",
               stats |-> ("vscode+cline" :> <<"y", " ", "#", "1">>) @@ ("vscode+native" :> <<"n">>)
                            @@ ("cursor+cline" :> <<"a", "#", "2">>) @@ ("ghost+cline" :> <<"y">>),
               sources |-> ("vscode+cline" :> [text |-> "https://docs/vscode"])
                            @@ ("vscode+native" :> [url |-> "https://docs/native", evidence |-> "release notes"])
                            @@ ("ghost+cline" :> [text |-> "https://docs/ghost"]),
               notes |-> ("1" :> "needs a flag")],
              [id |-> "roots", title |-> "Tools",
               stats |-> ("cursor+native" :> <<"d">>),
               sources |-> ("cursor+native" :> [text |-> "https://docs/cursor"])] }
      [] OTHER ->
            { [id |-> "roots", title |-> "Roots",
               stats |-> ("vscode+cline" :> <<"w", "e", "i", "r", "d">>) @@ ("cursor+native" :> <<"n", " ", "#", "1">>),
               sources |-> ("cursor+native" :> [url |-> "https://docs/roots", evidence |-> "tested"]),
               notes |-> ("1" :> "see the issue")],
              [title |-> "Roots"] }

ChangelogBodies ==
    { [entries |-> << [date |-> "2024-11-01", title |-> "spec"], [date |-> "2025-01-15", title |-> "client"],
                      [date |-> "2024-11-01", title |-> "fix"] >>],
      [entries |-> << [date |-> "2024-11-01", title |-> "spec"], [title |-> "undated"],
                      [date |-> "2025-01-15", title |-> "client"] >>],
      [entries |-> <<>>] }

Bodies(r) ==
    CASE r[1] = "ides" -> IdeBodies(r[2])
      [] r[1] = "ai-clients" -> AiClientBodies(r[2])
      [] r[1] = "features" -> FeatureBodies(r[2])
      [] OTHER -> ChangelogBodies

\* what a fetch may come to: a network error, a non-success status, a body
\* that is not JSON, or a success with one of the documents
FailureKinds == {"network", "status", "parse"}

Outcomes(r) ==
    {[kind |-> "ok", body |-> b] : b \in Bodies(r)} \cup {[kind |-> k, body |-> Null] : k \in FailureKinds}

----------------------------------------------------------------------------
(* loadJSON: the try block throws on a rejected fetch, on !response.ok and *)
(* on a rejected response.json(); the catch logs and returns null.  The    *)
(* value is the settlement of the promise loadJSON returns.                *)

TryLoadJSON(o) ==
    IF o.kind = "network" THEN [state |-> "rejected", value |-> Null]
    ELSE IF o.kind = "status" THEN [state |-> "rejected", value |-> Null]
    ELSE IF o.kind = "parse" THEN [state |-> "rejected", value |-> Null]
    ELSE [state |-> "fulfilled", value |-> o.body]

loadJSON_NoCatch(o) == TryLoadJSON(o)

loadJSON(o) ==
    IF TryLoadJSON(o).state = "rejected" THEN [state |-> "fulfilled", value |-> Null] ELSE TryLoadJSON(o)

----------------------------------------------------------------------------
(* JavaScript objects used as maps *)

\* obj[key], undefined (here Null) when the key is absent
Get(obj, key) == IF key \in DOMAIN obj THEN obj[key] ELSE Null

\* ides[id], for the insertion-ordered sequence of <<id, document>>
IdeOf(id) == IF \E i \in 1..Len(ides) : ides[i][1] = id THEN ides[CHOOSE i \in 1..Len(ides) : ides[i][1] = id][2] ELSE Null

\* ides[id] = data: a new key goes last, an existing key keeps its place
PutIde(id, data) ==
    IF \E i \in 1..Len(ides) : ides[i][1] = id
    THEN [i \in 1..Len(ides) |-> IF ides[i][1] = id THEN <<id, data>> ELSE ides[i]]
    ELSE Append(ides, <<id, data>>)

\* obj[id] = data for the maps that are only read by key
Put(obj, id, data) == (id :> data) @@ obj

\* the map with no key (the function of empty domain)
EmptyObject == <<>>

----------------------------------------------------------------------------
(* loadAllData: every callback of the three map() calls and the changelog  *)
(* .then() awaits loadJSON and stores a truthy result; Promise.all joins   *)
(* them.  A promise that rejects makes Promise.all, loadAllData and init   *)
(* reject at once, while the other fetches go on.                          *)

\* where init() stands after one callback's loadJSON settled as res
AfterAwait_Abort(res) == IF res.value = Null /\ pc = "loading" THEN "thrown" ELSE pc

AfterAwait(res) == IF res.state = "rejected" /\ pc = "loading" THEN "thrown" ELSE pc

\* Promise.all([...idePromises, ...aiPromises, ...featurePromises, changelogPromise])
PromiseAll_Any == pending # Resources

PromiseAll == pending = {}

\* init() is called: loadAllData issues every fetch before its first await
StartLoad ==
    /\ pc = "start"
    /\ pc' = "loading"
    /\ pending' = Resources
    /\ answers' = EmptyObject
    /\ UNCHANGED <<server, ides, aiClients, features, changelog, viewVars, uiVars, parseVars>>

SettleIde(id) ==
    /\ <<"ides", id>> \in pending
    /\ \E o \in server[<<"ides", id>>] :
         LET res == loadJSON(o) IN
         /\ ides' = IF res.state = "fulfilled" /\ res.value # Null THEN PutIde(id, res.value) ELSE ides
         /\ pc' = AfterAwait(res)
         /\ answers' = Put(answers, <<"ides", id>>, o.body)
    /\ pending' = pending \ {<<"ides", id>>}
    /\ UNCHANGED <<server, aiClients, features, changelog, viewVars, uiVars, parseVars>>

SettleAiClient(id) ==
    /\ <<"ai-clients", id>> \in pending
    /\ \E o \in server[<<"ai-clients", id>>] :
         LET res == loadJSON(o) IN
         /\ aiClients' = IF res.state = "fulfilled" /\ res.value # Null THEN Put(aiClients, id, res.value) ELSE aiClients
         /\ pc' = AfterAwait(res)
         /\ answers' = Put(answers, <<"ai-clients", id>>, o.body)
    /\ pending' = pending \ {<<"ai-clients", id>>}
    /\ UNCHANGED <<server, ides, features, changelog, viewVars, uiVars, parseVars>>

SettleFeature(id) ==
    /\ <<"features", id>> \in pending
    /\ \E o \in server[<<"features", id>>] :
         LET res == loadJSON(o) IN
         /\ features' = IF res.state = "fulfilled" /\ res.value # Null THEN Put(features, id, res.value) ELSE features
         /\ pc' = AfterAwait(res)
         /\ answers' = Put(answers, <<"features", id>>, o.body)
    /\ pending' = pending \ {<<"features", id>>}
    /\ UNCHANGED <<server, ides, aiClients, changelog, viewVars, uiVars, parseVars>>

SettleChangelog ==
    /\ <<"changelog", "changelog">> \in pending
    /\ \E o \in server[<<"changelog", "changelog">>] :
         LET res == loadJSON(o) IN
         /\ changelog' = IF res.state = "fulfilled" /\ res.value # Null THEN res.value ELSE changelog
         /\ pc' = AfterAwait(res)
         /\ answers' = Put(answers, <<"changelog", "changelog">>, o.body)
    /\ pending' = pending \ {<<"changelog", "changelog">>}
    /\ UNCHANGED <<server, ides, aiClients, features, viewVars, uiVars, parseVars>>

\* await Promise.all(...) resumes loadAllData, which returns to init()
LoadAllDataReturns ==
    /\ pc = "loading"
    /\ PromiseAll
    /\ pc' = "renderPlugins"
    /\ UNCHANGED <<server, pending, answers, ides, aiClients, features, changelog, viewVars, uiVars, parseVars>>

----------------------------------------------------------------------------
(* getClientCombinations: Object.entries(ides) in insertion order, then    *)
(* the compatibility list in its own order, kept when aiClients[id] is     *)
(* truthy.                                                                 *)

ComboKey(ideId, aiClientId) == ideId \o "+" \o aiClientId

CompatibleClients(ide) == IF "compatible_ai_clients" \in DOMAIN ide THEN ide.compatible_ai_clients ELSE <<>>

CombosOfIde_NoCheck(ideId, ide, clients) ==
    [i \in 1..Len(CompatibleClients(ide)) |->
        [key |-> ComboKey(ideId, CompatibleClients(ide)[i]), ide |-> ide, ideId |-> ideId,
         aiClient |-> Get(clients, CompatibleClients(ide)[i]), aiClientId |-> CompatibleClients(ide)[i]]]

CombosOfIde(ideId, ide, clients) ==
    LET all == [i \in 1..Len(CompatibleClients(ide)) |->
                   [key |-> ComboKey(ideId, CompatibleClients(ide)[i]), ide |-> ide, ideId |-> ideId,
                    aiClient |-> Get(clients, CompatibleClients(ide)[i]), aiClientId |-> CompatibleClients(ide)[i]]]
        known(c) == c.aiClient # Null
    IN SelectSeq(all, known)

Combinations(ideEntries, clients) ==
    Flatten([i \in 1..Len(ideEntries) |-> CombosOfIde(ideEntries[i][1], ideEntries[i][2], clients)])

getClientCombinations == Combinations(ides, aiClients)

----------------------------------------------------------------------------
(* parseSupport: !value covers undefined and the empty string; the regular *)
(* expression is /^([yandu])\s*(?:#(\d+))?$/.  A value that may be         *)
(* undefined is a sequence of no element (undefined) or of one (the text). *)

Undefined == <<>>

Some(v) == <<v>>

SupportCodes == {"y", "a", "n", "d", "u"}

\* the characters \s matches, of those the model writes
Whitespace == {" ", "\t"}

\* the characters \d matches
Digits == {"0", "1", "2", "3", "4", "5", "6", "7", "8", "9"}

\* the length of the longest prefix of s made of characters of set
RECURSIVE PrefixIn(_, _)
PrefixIn(s, set) == IF s # <<>> /\ Head(s) \in set THEN 1 + PrefixIn(Tail(s), set) ELSE 0

Drop(s, n) == SubSeq(s, n + 1, Len(s))

\* the characters of a sequence as one string
RECURSIVE Join(_)
Join(cs) == IF cs = <<>> THEN "" ELSE Head(cs) \o Join(Tail(cs))

Unknown == [code |-> "u", noteRef |-> Undefined]

\* value.match(...) for a non-empty text s
MatchSupport_StrictGrammar(s) ==
    LET afterWs == Drop(Tail(s), PrefixIn(Tail(s), {" "}))
        digits == IF afterWs # <<>> /\ Head(afterWs) = "#" THEN Tail(afterWs) ELSE <<>>
    IN IF Head(s) \notin SupportCodes THEN Unknown
       ELSE IF afterWs # <<>> /\ Head(afterWs) = "#" /\ digits # <<>> /\ PrefixIn(digits, Digits) = Len(digits)
            THEN [code |-> Head(s), noteRef |-> Some(Join(digits))]
       ELSE IF Tail(s) = <<>> THEN [code |-> Head(s), noteRef |-> Undefined]
       ELSE Unknown

MatchSupport(s) ==
    LET afterWs == Drop(Tail(s), PrefixIn(Tail(s), Whitespace))
        digits == IF afterWs # <<>> /\ Head(afterWs) = "#" THEN Tail(afterWs) ELSE <<>>
    IN IF Head(s) \notin SupportCodes THEN Unknown
       ELSE IF afterWs = <<>> THEN [code |-> Head(s), noteRef |-> Undefined]
       ELSE IF Head(afterWs) = "#" /\ digits # <<>> /\ PrefixIn(digits, Digits) = Len(digits)
            THEN [code |-> Head(s), noteRef |-> Some(Join(digits))]
       ELSE Unknown

parseSupport(value) ==
    IF value = Undefined \/ value[1] = <<>> THEN Unknown ELSE MatchSupport(value[1])

----------------------------------------------------------------------------
(* renderSupportCell: the <span> of one feature cell, with its class, its  *)
(* data-* attributes and its onclick handler.                              *)

SUPPORT_ICONS ==
    [y |-> [class |-> "support-y"], a |-> [class |-> "support-a"], n |-> [class |-> "support-n"],
     u |-> [class |-> "support-u"], d |-> [class |-> "support-a"]]

\* escapeHtml(text) written into a quoted attribute and read back through
\* dataset: the text itself for the texts of the model (none holds a quote),
\* the empty string for undefined (textContent = undefined clears the node)
AttrText(maybe) == IF maybe = Undefined THEN "" ELSE maybe[1]

\* feature.id and feature.notes of a feature document
FeatureId(feature) == IF "id" \in DOMAIN feature THEN Some(feature.id) ELSE Undefined

FeatureNotes(feature) == IF "notes" \in DOMAIN feature THEN feature.notes ELSE EmptyObject

\* feature.stats ? feature.stats[combo.key] : null
SupportOf_DefaultYes(feature, key) ==
    IF "stats" \in DOMAIN feature /\ key \in DOMAIN feature.stats THEN Some(feature.stats[key]) ELSE Some(<<"y">>)

SupportOf(feature, key) ==
    IF "stats" \in DOMAIN feature /\ key \in DOMAIN feature.stats THEN Some(feature.stats[key]) ELSE Undefined

\* feature.sources ? feature.sources[key] : null
SourceOf(feature, key) ==
    IF "sources" \in DOMAIN feature /\ key \in DOMAIN feature.sources THEN feature.sources[key] ELSE Null

renderSupportCell(support, notes, source, comboKey, featureId) ==
    LET parsed == parseSupport(support)
        iconInfo == IF parsed.code \in DOMAIN SUPPORT_ICONS THEN SUPPORT_ICONS[parsed.code] ELSE SUPPORT_ICONS.u
        hasNote == parsed.noteRef # Undefined /\ parsed.noteRef[1] \in DOMAIN notes /\ notes[parsed.noteRef[1]] # ""
        dataAttrs == ("comboKey" :> AttrText(Some(comboKey))) @@ ("featureId" :> AttrText(featureId))
    IN [class |-> iconInfo.class,
        hasSource |-> source # Null,
        dataset |-> IF hasNote THEN ("note" :> notes[parsed.noteRef[1]]) @@ dataAttrs ELSE dataAttrs,
        onclick |-> "showSourceModal"]

----------------------------------------------------------------------------
(* renderPluginsMatrix: the loaded interfaces in IDE_FILES order, split    *)
(* into the plugin-ecosystem table and the native-only table.              *)

\* a container before its render pass
NotRendered == [state |-> "initial"]

\* the "No data available" / "No changelog entries" paragraph
Placeholder == [state |-> "empty"]

\* the loaded interfaces as { id: ideId, ...ide }, in IDE_FILES order: the
\* spread comes second, so the document's own id field wins
LoadedIdes ==
    LET loaded(ideId) == IdeOf(ideId) # Null
        row(ideId) == [id |-> IF "id" \in DOMAIN IdeOf(ideId) THEN IdeOf(ideId).id ELSE ideId,
                       ideId |-> ideId, ide |-> IdeOf(ideId)]
        kept == SelectSeq(IDE_FILES, loaded)
    IN [i \in 1..Len(kept) |-> row(kept[i])]

hasPlugins_AnyClient(clients) == Len(clients) >= 1

hasPlugins(clients) == Len(clients) > 1 \/ (Len(clients) = 1 /\ clients[1] # "native")

pluginEcosystems ==
    LET eco(r) == hasPlugins(CompatibleClients(r.ide)) IN SelectSeq(LoadedIdes, eco)

nativeOnly ==
    LET nat(r) == ~hasPlugins(CompatibleClients(r.ide)) IN SelectSeq(LoadedIdes, nat)

\* the elements of s without repeats, each at its first place (a Set's order)
Distinct_KeepRepeats(s) == s

RECURSIVE Distinct(_)
Distinct(s) ==
    IF s = <<>> THEN <<>>
    ELSE LET front == Distinct(SubSeq(s, 1, Len(s) - 1))
         IN IF Contains(front, s[Len(s)]) THEN front ELSE Append(front, s[Len(s)])

sortedPluginClients ==
    LET notNative(c) == c # "native"
    IN Distinct(Flatten([i \in 1..Len(pluginEcosystems) |->
                            SelectSeq(CompatibleClients(pluginEcosystems[i].ide), notNative)]))

\* nativeClient?.native_names?.[ide.id], undefined or a text
NativeName(rowId) ==
    IF "native" \in DOMAIN aiClients /\ "native_names" \in DOMAIN aiClients["native"]
          /\ rowId \in DOMAIN aiClients["native"].native_names
    THEN Some(aiClients["native"].native_names[rowId])
    ELSE Undefined

\* the Native <span>: data-note and onclick="toggleNote(this)" when the name is truthy
NativeCell(rowId, supported) ==
    LET nativeName == NativeName(rowId)
        truthy == nativeName # Undefined /\ nativeName[1] # ""
    IN [supported |-> supported,
        dataset |-> IF truthy THEN ("note" :> nativeName[1]) ELSE EmptyObject,
        onclick |-> IF truthy THEN "toggleNote" ELSE ""]

\* ideId is the IDE_FILES entry whose loop iteration wrote the row
EcosystemRow(r) ==
    [ideId |-> r.ideId, id |-> r.id, name |-> r.ide.name,
     native |-> NativeCell(r.id, Contains(CompatibleClients(r.ide), "native")),
     cells |-> [j \in 1..Len(sortedPluginClients) |-> Contains(CompatibleClients(r.ide), sortedPluginClients[j])]]

NativeOnlyRow(r) == [ideId |-> r.ideId, id |-> r.id, name |-> r.ide.name, native |-> NativeCell(r.id, TRUE)]

PluginsMatrixHtml ==
    IF Len(ides) = 0 \/ DOMAIN aiClients = {}
    THEN Placeholder
    ELSE [state |-> "table",
          columns |-> sortedPluginClients,
          ecosystem |-> [i \in 1..Len(pluginEcosystems) |-> EcosystemRow(pluginEcosystems[i])],
          nativeOnly |-> [i \in 1..Len(nativeOnly) |-> NativeOnlyRow(nativeOnly[i])]]

renderPluginsMatrix ==
    /\ pc = "renderPlugins"
    /\ pluginsView' = PluginsMatrixHtml
    /\ renderLog' = Append(renderLog, "plugins")
    /\ pc' = "renderFeatures"
    /\ UNCHANGED <<server, pending, answers, ides, aiClients, features, changelog, featuresView, changelogView, uiVars, parseVars>>

----------------------------------------------------------------------------
(* renderFeaturesMatrix: one column per loaded feature in FEATURE_FILES    *)
(* order, one row-group per interface that has a combination, sorted by    *)
(* combination count (descending) and then by name.                        *)

\* FEATURE_FILES.map(id => features[id]).filter(f => f), with each
\* document's key in the features map beside it
featureList ==
    LET loaded(id) == id \in DOMAIN features
        kept == SelectSeq(FEATURE_FILES, loaded)
    IN [i \in 1..Len(kept) |-> [key |-> kept[i], doc |-> features[kept[i]]]]

\* groupedByIde: the interfaces of the combinations, in the order of their
\* first combination, each with its combinations in order
groupedByIde(combos) ==
    LET ideIds == Distinct([i \in 1..Len(combos) |-> combos[i].ideId])
        group(ideId) ==
            LET mine(c) == c.ideId = ideId
            IN [ideId |-> ideId, ide |-> SelectSeq(combos, mine)[1].ide, combos |-> SelectSeq(combos, mine)]
    IN [i \in 1..Len(ideIds) |-> group(ideIds[i])]

\* String.prototype.localeCompare on the display names of the documents
\* (-1, 0 or 1), by their collation order
NameCollation == <<"Cursor", "VS Code", "Xcode">>

localeCompare(a, b) ==
    IF IndexOf(NameCollation, a) < IndexOf(NameCollation, b) THEN -1
    ELSE IF IndexOf(NameCollation, a) > IndexOf(NameCollation, b) THEN 1
    ELSE 0

\* the comparator handed to sort()
CompareGroups_ByName(a, b) == localeCompare(a.ide.name, b.ide.name)

CompareGroups(a, b) ==
    IF Len(b.combos) - Len(a.combos) # 0
    THEN Len(b.combos) - Len(a.combos)
    ELSE localeCompare(a.ide.name, b.ide.name)

\* Array.prototype.sort with CompareGroups: a stable sort
RECURSIVE SortGroups(_)
SortGroups(gs) ==
    IF gs = <<>> THEN <<>>
    ELSE LET front == SortGroups(SubSeq(gs, 1, Len(gs) - 1))
             x == gs[Len(gs)]
             after == {i \in 1..Len(front) : CompareGroups(front[i], x) > 0}
             at == IF after = {} THEN Len(front) + 1 ELSE CHOOSE i \in after : \A j \in after : i <= j
         IN SubSeq(front, 1, at - 1) \o <<x>> \o SubSeq(front, at, Len(front))

\* the <td>s of one row: one renderSupportCell per column
FeatureCells(key) ==
    [j \in 1..Len(featureList) |->
        renderSupportCell(SupportOf(featureList[j].doc, key), FeatureNotes(featureList[j].doc),
                          SourceOf(featureList[j].doc, key), key, FeatureId(featureList[j].doc))]

\* the label of a row inside a collapsible group
AiName(combo, ideId, ide) ==
    IF combo.aiClientId = "native"
    THEN IF "native_names" \in DOMAIN combo.aiClient /\ ideId \in DOMAIN combo.aiClient.native_names
            /\ combo.aiClient.native_names[ideId] # ""
         THEN combo.aiClient.native_names[ideId]
         ELSE ide.name \o " (Native)"
    ELSE combo.aiClient.name

GroupId(ideId) == "group-" \o ideId

\* one interface's rows: a single plain row, or a header row and one
\* hidden row per combination
RowGroup(group) ==
    IF Len(group.combos) = 1
    THEN [ideId |-> group.ideId, collapsible |-> FALSE, name |-> group.ide.name, count |-> 1,
          rows |-> << [label |-> group.ide.name, key |-> group.combos[1].key, cells |-> FeatureCells(group.combos[1].key)] >>]
    ELSE [ideId |-> group.ideId, collapsible |-> TRUE, name |-> group.ide.name, count |-> Len(group.combos),
          rows |-> [i \in 1..Len(group.combos) |->
                      [label |-> AiName(group.combos[i], group.ideId, group.ide), key |-> group.combos[i].key,
                       cells |-> FeatureCells(group.combos[i].key)]]]

\* the container's content, for the constants combos and sortedIdeIds (here
\* the sorted groups themselves) of the pass
FeaturesMatrixHtml(combos, sorted) ==
    IF Len(combos) = 0 \/ DOMAIN features = {}
    THEN Placeholder
    ELSE [state |-> "table",
          columns |-> [j \in 1..Len(featureList) |-> [key |-> featureList[j].key, title |-> featureList[j].doc.title]],
          groups |-> [i \in 1..Len(sorted) |-> RowGroup(sorted[i])]]

\* the rows written with class="ide-group-row <groupId>" style="display: none;"
GroupRows(view, groupId) ==
    IF view.state # "table" THEN {}
    ELSE UNION { {<<groupId, i>> : i \in 1..Len(view.groups[g].rows)} :
                 g \in {k \in 1..Len(view.groups) :
                            view.groups[k].collapsible /\ GroupId(view.groups[k].ideId) = groupId} }

\* the data-group values of the header rows
GroupIds(view) ==
    IF view.state # "table" THEN {}
    ELSE {GroupId(view.groups[g].ideId) : g \in {k \in 1..Len(view.groups) : view.groups[k].collapsible}}

renderFeaturesMatrix ==
    /\ pc = "renderFeatures"
    /\ \E combos \in {getClientCombinations} :
         \E grouped \in {groupedByIde(combos)} :
           \E sorted \in {SortGroups(grouped)} :
             featuresView' = FeaturesMatrixHtml(combos, sorted)
    /\ hiddenRows' = UNION {GroupRows(featuresView', g) : g \in GroupIds(featuresView')}
    /\ expanded' = {}
    /\ renderLog' = Append(renderLog, "features")
    /\ pc' = "renderChangelog"
    /\ UNCHANGED <<server, pending, answers, ides, aiClients, features, changelog, pluginsView, changelogView,
                   groupClicks, modal, listeners, lastClick, showNote, parseVars>>

----------------------------------------------------------------------------
(* renderChangelog: a copy of the entries, sorted by date descending.      *)

\* entry.date, undefined when the entry has no date
EntryDate(entry) == IF "date" \in DOMAIN entry THEN Some(entry.date) ELSE Undefined

\* new Date(date) as a number (in days) for the dates of the documents;
\* Invalid Date, whose number is NaN, for undefined and for any other text
DateValue(date) ==
    CASE date = Some("2024-11-01") -> Some(20028)
      [] date = Some("2025-01-15") -> Some(20103)
      [] OTHER -> Undefined

\* the comparator handed to sort(): a NaN difference counts as +0
CompareEntries(a, b) ==
    IF DateValue(EntryDate(a)) = Undefined \/ DateValue(EntryDate(b)) = Undefined
    THEN 0
    ELSE DateValue(EntryDate(b))[1] - DateValue(EntryDate(a))[1]

\* Array.prototype.sort with a consistent comparator: a stable sort
RECURSIVE SortEntries(_)
SortEntries(es) ==
    IF es = <<>> THEN <<>>
    ELSE LET front == SortEntries(SubSeq(es, 1, Len(es) - 1))
             x == es[Len(es)]
             after == {i \in 1..Len(front) : CompareEntries(front[i], x) > 0}
             at == IF after = {} THEN Len(front) + 1 ELSE CHOOSE i \in after : \A j \in after : i <= j
         IN SubSeq(front, 1, at - 1) \o <<x>> \o SubSeq(front, at, Len(front))

\* whether CompareEntries is a consistent comparator for these entries: the
\* one condition a NaN can break is that "compares equal" is transitive
ConsistentComparator(es) ==
    \A i \in 1..Len(es), j \in 1..Len(es), k \in 1..Len(es) :
        (CompareEntries(es[i], es[j]) = 0 /\ CompareEntries(es[j], es[k]) = 0) => CompareEntries(es[i], es[k]) = 0

Orderings(es) ==
    {[i \in 1..Len(es) |-> es[q[i]]] :
        q \in {f \in [1..Len(es) -> 1..Len(es)] : \A i \in 1..Len(es), j \in 1..Len(es) : f[i] = f[j] => i = j}}

\* what sort() may return: with an inconsistent comparator the order is
\* implementation-defined, any permutation of the elements
SortOutcomes(es) == IF ConsistentComparator(es) THEN {SortEntries(es)} ELSE Orderings(es)

\* changelog.entries, the empty list when the document has none
EntriesOf(log) == IF "entries" \in DOMAIN log THEN log.entries ELSE <<>>

\* the changelog after the pass: sort() works on the copy [...changelog.entries]
EntriesAfterSort_InPlace(sorted) == IF "entries" \in DOMAIN changelog THEN [changelog EXCEPT !.entries = sorted] ELSE changelog

EntriesAfterSort(sorted) == changelog

ChangelogHtml(sorted) ==
    IF "entries" \notin DOMAIN changelog \/ Len(changelog.entries) = 0
    THEN Placeholder
    ELSE [state |-> "list", articles |-> sorted]

renderChangelog ==
    /\ pc = "renderChangelog"
    /\ \E sorted \in SortOutcomes(EntriesOf(changelog)) :
          /\ changelogView' = ChangelogHtml(sorted)
          /\ changelog' = EntriesAfterSort(sorted)
    /\ renderLog' = Append(renderLog, "changelog")
    /\ pc' = "ready"
    /\ UNCHANGED <<server, pending, answers, ides, aiClients, features, pluginsView, featuresView, uiVars, parseVars>>

----------------------------------------------------------------------------
(* toggleGroup: the header row of the group toggles class "expanded" and   *)
(* every row of the group's class is shown or hidden to match.             *)

\* the document-level click listener: no cell keeps class "show-note"
DocumentClick == {}

toggleGroup_ShowOnly(groupId) ==
    /\ expanded' = IF groupId \in expanded THEN expanded \ {groupId} ELSE expanded \cup {groupId}
    /\ hiddenRows' = hiddenRows \ GroupRows(featuresView, groupId)

toggleGroup(groupId) ==
    LET isExpanded == groupId \notin expanded
    IN /\ expanded' = IF isExpanded THEN expanded \cup {groupId} ELSE expanded \ {groupId}
       /\ hiddenRows' = IF isExpanded
                        THEN hiddenRows \ GroupRows(featuresView, groupId)
                        ELSE hiddenRows \cup GroupRows(featuresView, groupId)

\* how many header clicks the model follows for one group
MaxClicks == 3

ClicksOf(groupId) == IF groupId \in DOMAIN groupClicks THEN groupClicks[groupId] ELSE 0

\* a click on a group's header row: its onclick runs toggleGroup, and the
\* event bubbles to the document
ClickGroupHeader(groupId) ==
    /\ pc = "ready"
    /\ groupId \in GroupIds(featuresView)
    /\ ClicksOf(groupId) < MaxClicks
    /\ toggleGroup(groupId)
    /\ groupClicks' = Put(groupClicks, groupId, ClicksOf(groupId) + 1)
    /\ showNote' = DocumentClick
    /\ UNCHANGED <<loadVars, viewVars, modal, listeners, lastClick, parseVars>>

----------------------------------------------------------------------------
(* showSourceModal and closeSourceModal: the detail overlay.               *)

\* comboKey.split('+'): the two identifiers of a key
SplitKey(key) ==
    LET pairs == {p \in Range(IDE_FILES) \X Range(AI_CLIENT_FILES) : ComboKey(p[1], p[2]) = key}
    IN CHOOSE p \in pairs : TRUE

\* `${ideName} + ${aiName}`
ClientDisplay(key) ==
    LET ideId == SplitKey(key)[1]
        aiClientId == SplitKey(key)[2]
        ideName == IF IdeOf(ideId) # Null THEN IdeOf(ideId).name ELSE ideId
        aiName == IF aiClientId \notin DOMAIN aiClients THEN aiClientId
                  ELSE IF aiClientId # "native" THEN aiClients[aiClientId].name
                  ELSE IF "native_names" \in DOMAIN aiClients[aiClientId]
                            /\ ideId \in DOMAIN aiClients[aiClientId].native_names
                            /\ aiClients[aiClientId].native_names[ideId] # ""
                       THEN aiClients[aiClientId].native_names[ideId]
                       ELSE "Native"
    IN ideName \o " + " \o aiName

NoEvidence == "<em>No evidence recorded</em>"

NoSourceUrl == "<em>No source URL available</em>"

\* source ? (typeof source === 'string' ? source : source.url) : null, then
\* the content of .source-modal-link
LinkHtml(source) ==
    IF source = Null THEN NoSourceUrl
    ELSE IF "text" \in DOMAIN source THEN (IF source.text # "" THEN source.text ELSE NoSourceUrl)
    ELSE IF "url" \in DOMAIN source /\ source.url # "" THEN source.url
    ELSE NoSourceUrl

\* source && typeof source === 'object' ? source.evidence : null, then the
\* content of .source-modal-evidence
EvidenceHtml(source) ==
    IF source # Null /\ "text" \notin DOMAIN source /\ "evidence" \in DOMAIN source /\ source.evidence # ""
    THEN source.evidence
    ELSE NoEvidence

\* !document.getElementById('source-modal')
MustCreate_Always(m) == TRUE

MustCreate(m) == m.count = 0

\* the overlay populated for a feature document, a key and the cell's dataset
Populate(m, feature, featureId, comboKey, dataset) ==
    [count |-> IF MustCreate(m) THEN m.count + 1 ELSE m.count,
     active |-> TRUE,
     title |-> IF "title" \in DOMAIN feature /\ feature.title # "" THEN feature.title ELSE featureId,
     client |-> ClientDisplay(comboKey),
     note |-> IF "note" \in DOMAIN dataset /\ dataset.note # ""
              THEN [display |-> "block", html |-> dataset.note]
              ELSE [display |-> "none", html |-> m.note.html],
     evidence |-> [display |-> "block", html |-> EvidenceHtml(SourceOf(feature, comboKey))],
     link |-> [display |-> "block", html |-> LinkHtml(SourceOf(feature, comboKey))]]

\* showSourceModal(element) for the <span> with this dataset
showSourceModal(dataset) ==
    IF dataset.featureId \notin DOMAIN features
    THEN UNCHANGED <<modal, listeners>>
    ELSE /\ modal' = Populate(modal, features[dataset.featureId], dataset.featureId, dataset.comboKey, dataset)
         /\ listeners' = IF MustCreate(modal)
                          THEN [backdrop |-> listeners.backdrop + 1, keydown |-> listeners.keydown + 1]
                          ELSE listeners

closeSourceModal == IF modal.count > 0 THEN [modal EXCEPT !.active = FALSE] ELSE modal

\* a click on the cell of row r of group g in column j, the row being
\* displayed: the inline handler stops the propagation
ClickFeatureCell(g, r, j) ==
    /\ pc = "ready"
    /\ featuresView.state = "table"
    /\ g \in 1..Len(featuresView.groups)
    /\ r \in 1..Len(featuresView.groups[g].rows)
    /\ j \in 1..Len(featuresView.columns)
    /\ <<GroupId(featuresView.groups[g].ideId), r>> \notin hiddenRows
    /\ showSourceModal(featuresView.groups[g].rows[r].cells[j].dataset)
    /\ lastClick' = [clicked |-> TRUE, feature |-> featuresView.columns[j].key,
                     key |-> featuresView.groups[g].rows[r].key,
                     dataset |-> featuresView.groups[g].rows[r].cells[j].dataset]
    /\ UNCHANGED <<loadVars, viewVars, expanded, hiddenRows, groupClicks, showNote, parseVars>>

\* a click on the close button: closeSourceModal, then the overlay's own
\* listener (the target is not the overlay) and the document's
ClickModalClose ==
    /\ modal.count > 0
    /\ modal' = closeSourceModal
    /\ showNote' = DocumentClick
    /\ UNCHANGED <<loadVars, viewVars, expanded, hiddenRows, groupClicks, listeners, lastClick, parseVars>>

\* a click on the backdrop: every listener of the overlay sees e.target === modal
ClickBackdrop ==
    /\ modal.count > 0
    /\ modal' = IF listeners.backdrop > 0 THEN closeSourceModal ELSE modal
    /\ showNote' = DocumentClick
    /\ UNCHANGED <<loadVars, viewVars, expanded, hiddenRows, groupClicks, listeners, lastClick, parseVars>>

\* a click inside the overlay's content, off the close button
ClickModalContent ==
    /\ modal.count > 0
    /\ showNote' = DocumentClick
    /\ UNCHANGED <<loadVars, viewVars, expanded, hiddenRows, groupClicks, modal, listeners, lastClick, parseVars>>

\* the Escape key, at any time
PressEscape ==
    /\ modal' = IF listeners.keydown > 0 THEN closeSourceModal ELSE modal
    /\ UNCHANGED <<loadVars, viewVars, expanded, hiddenRows, groupClicks, listeners, lastClick, showNote, parseVars>>

----------------------------------------------------------------------------
(* toggleNote and the document-level click listener: the tooltips of the   *)
(* plugin-availability view.                                               *)

\* the Native cells of the two tables that carry onclick="toggleNote(this)"
NoteCells ==
    IF pluginsView.state # "table" THEN {}
    ELSE {<<"ecosystem", i>> : i \in {k \in 1..Len(pluginsView.ecosystem) : pluginsView.ecosystem[k].native.onclick = "toggleNote"}}
         \cup {<<"nativeOnly", i>> : i \in {k \in 1..Len(pluginsView.nativeOnly) : pluginsView.nativeOnly[k].native.onclick = "toggleNote"}}

toggleNote_KeepOthers(element) ==
    IF element \in showNote THEN showNote \ {element} ELSE showNote \cup {element}

toggleNote(element) ==
    LET others == {el \in showNote : el = element}
    IN IF element \in others THEN others \ {element} ELSE others \cup {element}

\* a click on a cell with a note: the inline handler stops the propagation
ClickNoteCell(element) ==
    /\ pc = "ready"
    /\ element \in NoteCells
    /\ showNote' = toggleNote(element)
    /\ UNCHANGED <<loadVars, viewVars, expanded, hiddenRows, groupClicks, modal, listeners, lastClick, parseVars>>

\* a click on anything that has no handler of its own: only the
\* document-level listener runs
ClickElsewhere ==
    /\ showNote' = DocumentClick
    /\ UNCHANGED <<loadVars, viewVars, expanded, hiddenRows, groupClicks, modal, listeners, lastClick, parseVars>>

----------------------------------------------------------------------------
(* The page as the script leaves it when it has been evaluated: the maps   *)
(* empty, no overlay, the document-level click listener installed, init()  *)
(* about to run.                                                           *)

NoModal ==
    [count |-> 0, active |-> FALSE, title |-> "", client |-> "",
     note |-> [display |-> "", html |-> ""], evidence |-> [display |-> "", html |-> ""],
     link |-> [display |-> "", html |-> ""]]

NoClick == [clicked |-> FALSE]

\* output before parseSupport has returned
NotCalled == [code |-> "", noteRef |-> Undefined]

PageLoaded ==
    /\ pc = "start"
    /\ pending = {}
    /\ answers = EmptyObject
    /\ ides = <<>>
    /\ aiClients = EmptyObject
    /\ features = EmptyObject
    /\ changelog = [entries |-> <<>>]
    /\ pluginsView = NotRendered
    /\ featuresView = NotRendered
    /\ changelogView = NotRendered
    /\ renderLog = <<>>
    /\ expanded = {}
    /\ hiddenRows = {}
    /\ groupClicks = EmptyObject
    /\ modal = NoModal
    /\ listeners = [backdrop |-> 0, keydown |-> 0]
    /\ lastClick = NoClick
    /\ showNote = {}

\* every resource may fail in each way or answer any of its documents
Init ==
    /\ server = [r \in Resources |-> Outcomes(r)]
    /\ PageLoaded
    /\ input = Undefined
    /\ output = NotCalled

Next ==
    \/ StartLoad
    \/ \E id \in Range(IDE_FILES) : SettleIde(id)
    \/ \E id \in Range(AI_CLIENT_FILES) : SettleAiClient(id)
    \/ \E id \in Range(FEATURE_FILES) : SettleFeature(id)
    \/ SettleChangelog
    \/ LoadAllDataReturns
    \/ renderPluginsMatrix
    \/ renderFeaturesMatrix
    \/ renderChangelog

Spec == Init /\ [][Next]_vars

\* the servers followed for progress: every interface, the second feature
\* and the changelog answer with a document or a 404, the other resources
\* with a document.  Which document plays no part in the control flow of
\* init(); the interfaces answer with one that names at most one client.
LiveBody(r) ==
    IF r[1] = "ides"
    THEN CHOOSE b \in Bodies(r) : Len(CompatibleClients(b)) <= 1
    ELSE CHOOSE b \in Bodies(r) : TRUE

LiveServer ==
    [r \in Resources |->
        IF r[1] = "ai-clients" \/ r = <<"features", "tools">>
        THEN {[kind |-> "ok", body |-> LiveBody(r)]}
        ELSE {[kind |-> "ok", body |-> LiveBody(r)], [kind |-> "status", body |-> Null]}]

InitLive ==
    /\ server = LiveServer
    /\ PageLoaded
    /\ input = Undefined
    /\ output = NotCalled

\* the event loop runs a continuation that is ready: init() once the page is
\* loaded, the resumption of loadAllData once Promise.all is fulfilled, and
\* each render pass; nothing makes the network answer a fetch
SpecLive ==
    /\ InitLive
    /\ [][Next]_vars
    /\ WF_vars(StartLoad)
    /\ WF_vars(LoadAllDataReturns)
    /\ WF_vars(renderPluginsMatrix)
    /\ WF_vars(renderFeaturesMatrix)
    /\ WF_vars(renderChangelog)

----------------------------------------------------------------------------
(* The page in use: the server answers each fetch in one way (a document   *)
(* or a 404), init() loads and renders, and the user clicks and types.     *)

Answer(o) == {o}

Ok(body) == [kind |-> "ok", body |-> body]

NotFound == [kind |-> "status", body |-> Null]

UIServers ==
    {[r \in Resources |->
        CASE r = <<"ides", "vscode">> -> Answer(Ok([id |-> "vscode", name |-> "VS Code", compatible_ai_clients |-> <<"cline", "native", "jetbrains-ai">>]))
          [] r = <<"ides", "cursor">> -> Answer(Ok(cursor))
          [] r = <<"ides", "xcode">> -> Answer(NotFound)
          [] r = <<"ai-clients", "cline">> -> Answer(Ok([id |-> "cline", name |-> "Cline"]))
          [] r = <<"ai-clients", "native">> -> Answer(Ok([id |-> "native", name |-> "Native", native_names |-> [vscode |-> "Copilot Chat", cursor |-> "Cursor Agent"]]))
          [] r = <<"features", "tools">> -> Answer(Ok(tools))
          [] r = <<"features", "roots">> -> Answer(roots)
          [] OTHER -> Answer(Ok([entries |-> << [date |-> "2024-11-01", title |-> "spec"], [date |-> "2025-01-15", title |-> "client"],
                                                   [date |-> "2024-11-01", title |-> "fix"] >>]))] :
        cursor \in IdeBodies("cursor"), tools \in FeatureBodies("tools"),
        roots \in {Ok(b) : b \in FeatureBodies("roots")} \cup {NotFound}}

InitUI ==
    /\ server \in UIServers
    /\ PageLoaded
    /\ input = Undefined
    /\ output = NotCalled

NextUI ==
    \/ Next
    \/ \E groupId \in GroupIds(featuresView) : ClickGroupHeader(groupId)
    \/ \E g \in 1..Len(IDE_FILES), r \in 1..Len(AI_CLIENT_FILES), j \in 1..Len(FEATURE_FILES) : ClickFeatureCell(g, r, j)
    \/ ClickModalClose
    \/ ClickBackdrop
    \/ ClickModalContent
    \/ PressEscape
    \/ \E element \in NoteCells : ClickNoteCell(element)
    \/ ClickElsewhere

SpecUI == InitUI /\ [][NextUI]_vars

----------------------------------------------------------------------------
(* parseSupport on its own: the argument is undefined or any text of up to *)
(* MaxLen characters over an alphabet with two codes, a letter that is no  *)
(* code, two kinds of whitespace, the hash sign and two digits.            *)

MaxLen == 4

ParseAlphabet == {"y", "d", "x", " ", "\t", "#", "0", "1"}

SupportInputs == {Undefined} \cup {Some(s) : s \in UNION {[1..n -> ParseAlphabet] : n \in 0..MaxLen}}

InitParse ==
    /\ server = [r \in Resources |-> Outcomes(r)]
    /\ PageLoaded
    /\ input \in SupportInputs
    /\ output = NotCalled

CallParseSupport ==
    /\ output = NotCalled
    /\ output' = parseSupport(input)
    /\ UNCHANGED <<input, loadVars, viewVars, uiVars>>

NextParse == CallParseSupport

SpecParse == InitParse /\ [][NextParse]_vars

----------------------------------------------------------------------------
(* Properties of the loader and of the combination builder, under Spec.    *)

Failed == {r \in DOMAIN answers : answers[r] = Null}

Succeeded == {r \in DOMAIN answers : answers[r] # Null}

\* the document stored for resource r (Null: no entry)
StoredFor(r) ==
    CASE r[1] = "ides" -> IdeOf(r[2])
      [] r[1] = "ai-clients" -> Get(aiClients, r[2])
      [] r[1] = "features" -> Get(features, r[2])
      [] OTHER -> changelog

AfterLoad == {"renderPlugins", "renderFeatures", "renderChangelog", "ready"}

\* C1: whichever fetches fail (network error, non-success status or an
\* unparseable body), loadAllData does not throw and returns once every
\* fetch has settled; every resource whose fetch succeeded is stored under
\* its own identifier (the changelog replaces the initial one) and no failed
\* resource has an entry (a failed changelog leaves the empty one).
LoaderResilience ==
    /\ pc # "thrown"
    /\ (pc = "loading" /\ pending = {}) => ENABLED LoadAllDataReturns
    /\ \A r \in Succeeded : StoredFor(r) = answers[r]
    /\ \A r \in Failed : StoredFor(r) = IF r[1] = "changelog" THEN [entries |-> <<>>] ELSE Null
    /\ {ides[i][1] : i \in 1..Len(ides)} = {r[2] : r \in {q \in Succeeded : q[1] = "ides"}}
    /\ DOMAIN aiClients = {r[2] : r \in {q \in Succeeded : q[1] = "ai-clients"}}
    /\ DOMAIN features = {r[2] : r \in {q \in Succeeded : q[1] = "features"}}

\* C1 witness: the load is over, "roots" failed while "tools" was stored, an
\* IDE and an AI client failed too, and the feature matrix has the one column
LoaderResilienceWitness ==
    /\ pc = "ready"
    /\ <<"features", "roots">> \in Failed
    /\ <<"features", "tools">> \in Succeeded
    /\ <<"ides", "xcode">> \in Failed
    /\ <<"ai-clients", "cline">> \in Failed
    /\ <<"changelog", "changelog">> \in Failed
    /\ featuresView.state = "table"
    /\ Len(featuresView.columns) = 1
    /\ featuresView.columns[1].key = "tools"

\* C2: no render pass has started, and init() is not past its await, while
\* a fetch issued by loadAllData is unsettled.
LoadBarrier ==
    (pc \in AfterLoad \/ renderLog # <<>> \/ pluginsView # NotRendered \/ featuresView # NotRendered
        \/ changelogView # NotRendered)
    => (pending = {} /\ DOMAIN answers = Resources)

\* C2 witness: the first render pass is about to run after fetches that
\* settled both ways
LoadBarrierWitness ==
    /\ pc = "renderPlugins"
    /\ Failed # {}
    /\ Succeeded # {}
    /\ pending = {}

\* the (ideId, aiClientId) pairs the claim describes
ValidPairs ==
    {p \in Range(IDE_FILES) \X Range(AI_CLIENT_FILES) :
        /\ IdeOf(p[1]) # Null
        /\ Contains(CompatibleClients(IdeOf(p[1])), p[2])
        /\ p[2] \in DOMAIN aiClients}

\* C3: getClientCombinations holds a record keyed "<ideId>+<aiClientId>" for
\* exactly the pairs of a loaded IDE and a loaded AI client that the IDE's
\* compatibility list names, each record carrying the two documents.
CombinationMembership ==
    /\ {<<c.ideId, c.aiClientId>> : c \in Range(getClientCombinations)} = ValidPairs
    /\ \A c \in Range(getClientCombinations) :
          /\ c.key = ComboKey(c.ideId, c.aiClientId)
          /\ c.ide = IdeOf(c.ideId)
          /\ c.aiClient = aiClients[c.aiClientId]

\* C3 witness: vscode names cline (whose fetch failed), native (loaded) and
\* jetbrains-ai (no client file), xcode is loaded without a compatibility
\* list, and the combinations are those of vscode and cursor with native
CombinationMembershipWitness ==
    /\ pc = "ready"
    /\ IdeOf("vscode") # Null
    /\ CompatibleClients(IdeOf("vscode")) = <<"cline", "native", "jetbrains-ai">>
    /\ <<"ai-clients", "cline">> \in Failed
    /\ IdeOf("xcode") # Null
    /\ "compatible_ai_clients" \notin DOMAIN IdeOf("xcode")
    /\ IdeOf("cursor") # Null
    /\ [i \in 1..Len(getClientCombinations) |-> getClientCombinations[i].key]
          \in {<<"vscode+native", "cursor+native">>, <<"cursor+native", "vscode+native">>}

\* the place of a combination: its IDE in IDE_FILES, then its client in the list
Place(c) == <<IndexOf(IDE_FILES, c.ideId), IndexOf(CompatibleClients(c.ide), c.aiClientId)>>

\* C4: the combinations are ordered by the position of their IDE in
\* IDE_FILES and then by the position of the client in the IDE's list.
CombinationOrder ==
    \A i, j \in 1..Len(getClientCombinations) :
        i < j => \/ Place(getClientCombinations[i])[1] < Place(getClientCombinations[j])[1]
                 \/ /\ Place(getClientCombinations[i])[1] = Place(getClientCombinations[j])[1]
                    /\ Place(getClientCombinations[i])[2] < Place(getClientCombinations[j])[2]

----------------------------------------------------------------------------
(* Properties of parseSupport, under SpecParse.                            *)

\* ^(y|a|n|d|u)( *#<digits>)?$
MatchesStrictGrammar(s) ==
    /\ Len(s) >= 1
    /\ s[1] \in SupportCodes
    /\ \/ Len(s) = 1
       \/ /\ IndexOf(s, "#") >= 2
          /\ IndexOf(s, "#") < Len(s)
          /\ \A i \in 2..(IndexOf(s, "#") - 1) : s[i] = " "
          /\ \A i \in (IndexOf(s, "#") + 1)..Len(s) : s[i] \in Digits

\* ^(y|a|n|d|u)<whitespace>*(#<digits>)?$
MatchesWhitespaceGrammar(s) ==
    /\ Len(s) >= 1
    /\ s[1] \in SupportCodes
    /\ \/ \A i \in 2..Len(s) : s[i] \in Whitespace
       \/ /\ IndexOf(s, "#") >= 2
          /\ IndexOf(s, "#") < Len(s)
          /\ \A i \in 2..(IndexOf(s, "#") - 1) : s[i] \in Whitespace
          /\ \A i \in (IndexOf(s, "#") + 1)..Len(s) : s[i] \in Digits

\* the digits after the hash sign of a matching text, undefined without one
DigitsOf(s) == IF IndexOf(s, "#") = 0 THEN Undefined ELSE Some(Join(SubSeq(s, IndexOf(s, "#") + 1, Len(s))))

\* undefined, or a text of digits
DigitTexts ==
    {Undefined} \cup {Some(Join(d)) : d \in UNION {[1..n -> Digits \cap ParseAlphabet] : n \in 1..MaxLen}}

\* C5 as claimed: the result is a code and a null or all-digit reference; a
\* text of the grammar ^(y|a|n|d|u)( *#<digits>)?$ gives its letter and its
\* digits, and every other text (and undefined) gives {u, null}.
ParseSupportStrictGrammar ==
    output # NotCalled =>
        /\ output.code \in SupportCodes
        /\ output.noteRef \in DigitTexts
        /\ IF input # Undefined /\ MatchesStrictGrammar(input[1])
           THEN output = [code |-> input[1][1], noteRef |-> DigitsOf(input[1])]
           ELSE output = Unknown

\* C5 as amended: the same with the grammar ^(y|a|n|d|u)\s*(#<digits>)?$:
\* any whitespace may follow the letter, with or without a note reference.
ParseSupportTotal ==
    output # NotCalled =>
        /\ output.code \in SupportCodes
        /\ output.noteRef \in DigitTexts
        /\ IF input # Undefined /\ MatchesWhitespaceGrammar(input[1])
           THEN output = [code |-> input[1][1], noteRef |-> DigitsOf(input[1])]
           ELSE output = Unknown

\* C5 witness: "y<tab>#1" has been parsed to {y, "1"}
ParseSupportWitness ==
    /\ input = Some(<<"y", "\t", "#", "1">>)
    /\ output = [code |-> "y", noteRef |-> Some("1")]

----------------------------------------------------------------------------
(* Properties of the click handlers, under SpecUI.                         *)

\* C6: a click on any feature cell leaves the overlay active, titled with
\* the title of the cell's own feature and labelled for the cell's own
\* combination key.
CellClickOpens ==
    [][\A g \in 1..Len(IDE_FILES), r \in 1..Len(AI_CLIENT_FILES), j \in 1..Len(FEATURE_FILES) :
          ClickFeatureCell(g, r, j) =>
              /\ modal'.active
              /\ modal'.title = features[featuresView.columns[j].key].title
              /\ modal'.client = ClientDisplay(featuresView.groups[g].rows[r].key)]_vars

\* the document and the source of the cell clicked last
ClickedFeature == features[lastClick.feature]

ClickedSource == SourceOf(ClickedFeature, lastClick.key)

\* C7: the open overlay shows the source of the cell clicked last: a bare
\* URL with the "no evidence" placeholder, or the url and the evidence of a
\* structured source, or both placeholders; the note section is displayed
\* exactly when that cell carries a note.
DetailSurfaceContent ==
    modal.active =>
        /\ lastClick.clicked
        /\ modal.title = ClickedFeature.title
        /\ modal.client = ClientDisplay(lastClick.key)
        /\ modal.link.display = "block"
        /\ modal.evidence.display = "block"
        /\ ClickedSource = Null => (modal.link.html = NoSourceUrl /\ modal.evidence.html = NoEvidence)
        /\ (ClickedSource # Null /\ "text" \in DOMAIN ClickedSource)
              => (modal.link.html = ClickedSource.text /\ modal.evidence.html = NoEvidence)
        /\ (ClickedSource # Null /\ "url" \in DOMAIN ClickedSource)
              => (modal.link.html = ClickedSource.url /\ modal.evidence.html = ClickedSource.evidence)
        /\ (modal.note.display = "block") <=> ("note" \in DOMAIN lastClick.dataset)
        /\ ("note" \in DOMAIN lastClick.dataset) => modal.note.html = lastClick.dataset.note

\* C8: the document holds at most one overlay, with one backdrop listener
\* and one keydown listener, all three created by the first open; before
\* that there is none of them.
SingletonOverlay ==
    /\ modal.count <= 1
    /\ listeners.backdrop = modal.count
    /\ listeners.keydown = modal.count
    /\ modal.count = 0 => modal = NoModal

\* C8 witness: the one overlay is open for a cell without a note and still
\* holds, hidden, the note of an earlier open
SingletonOverlayWitness ==
    /\ modal.count = 1
    /\ listeners = [backdrop |-> 1, keydown |-> 1]
    /\ modal.active
    /\ modal.note.display = "none"
    /\ modal.note.html # ""

\* C9: a group whose header got an odd number of clicks is flagged expanded
\* and has every row displayed; with an even number (also zero) it is not
\* flagged and every row is hidden.
GroupCollapseParity ==
    \A groupId \in GroupIds(featuresView) :
        /\ GroupRows(featuresView, groupId) # {}
        /\ IF ClicksOf(groupId) % 2 = 1
           THEN groupId \in expanded /\ GroupRows(featuresView, groupId) \cap hiddenRows = {}
           ELSE groupId \notin expanded /\ GroupRows(featuresView, groupId) \subseteq hiddenRows

\* C9 witness: one group after three clicks and another after two, with
\* clicks on cells and a tooltip in between
GroupCollapseWitness ==
    /\ ClicksOf("group-vscode") = 3
    /\ ClicksOf("group-cursor") = 2
    /\ {"group-vscode", "group-cursor"} \subseteq GroupIds(featuresView)
    /\ modal.active

\* the clicks that reach the document-level listener
ReachesDocument ==
    \/ ClickElsewhere
    \/ ClickModalClose
    \/ ClickBackdrop
    \/ ClickModalContent
    \/ \E groupId \in GroupIds(featuresView) : ClickGroupHeader(groupId)

\* C10: at most one cell is shown; a click on a cell with a note leaves it
\* shown iff it was not, and no other cell shown; a click that reaches the
\* document-level listener leaves none shown.
TooltipToggle ==
    [][/\ Cardinality(showNote') <= 1
       /\ \A element \in NoteCells :
             ClickNoteCell(element) => /\ (element \in showNote') <=> (element \notin showNote)
                                       /\ showNote' \subseteq {element}
       /\ ReachesDocument => showNote' = {}]_vars

\* C10 witness: of two cells with a note, the second is the one shown
TooltipToggleWitness ==
    /\ Cardinality(NoteCells) >= 2
    /\ showNote = {<<"ecosystem", 2>>}
    /\ modal.active

----------------------------------------------------------------------------
(* Properties of the plugin-availability view, under Spec.                 *)

\* the two tables of the view (none before the pass, none in the placeholder)
EcosystemRows == IF pluginsView.state = "table" THEN pluginsView.ecosystem ELSE <<>>

NativeOnlyRows == IF pluginsView.state = "table" THEN pluginsView.nativeOnly ELSE <<>>

RowsFor(table, ideId) == {k \in 1..Len(table) : table[k].ideId = ideId}

\* a compatibility list that is missing, empty or exactly ["native"]
IsNativeOnly(doc) ==
    "compatible_ai_clients" \notin DOMAIN doc \/ doc.compatible_ai_clients \in {<<>>, <<"native">>}

\* every loaded interface has one row, in the table its list calls for
Partitioned ==
    \A i \in 1..Len(ides) :
        /\ Cardinality(RowsFor(EcosystemRows, ides[i][1])) + Cardinality(RowsFor(NativeOnlyRows, ides[i][1])) = 1
        /\ (RowsFor(EcosystemRows, ides[i][1]) # {}) <=> ~IsNativeOnly(ides[i][2])
        /\ (RowsFor(NativeOnlyRows, ides[i][1]) # {}) <=> IsNativeOnly(ides[i][2])

\* C11 as claimed: once the plugin-availability pass has run, every loaded
\* interface is in exactly one of the two groups, the plugin-ecosystem group
\* iff its list has more than one entry or one entry that is not "native".
PluginPartitionAlways == "plugins" \in Range(renderLog) => Partitioned

\* C11 as amended: the same whenever the pass renders its tables, that is
\* when at least one AI client is loaded (with none, it renders a
\* placeholder and places no interface at all).
PluginPartition == ("plugins" \in Range(renderLog) /\ DOMAIN aiClients # {}) => Partitioned

\* C11 witness: vscode (three clients) is in the plugin-ecosystem table,
\* cursor (["native"]) and xcode (no list) are in the native-only table
PluginPartitionWitness ==
    /\ pluginsView.state = "table"
    /\ RowsFor(EcosystemRows, "vscode") # {}
    /\ RowsFor(NativeOnlyRows, "cursor") # {}
    /\ RowsFor(NativeOnlyRows, "xcode") # {}
    /\ IdeOf("cursor").compatible_ai_clients = <<"native">>
    /\ "compatible_ai_clients" \notin DOMAIN IdeOf("xcode")

----------------------------------------------------------------------------
(* Properties of the feature view, under Spec.                             *)

\* the row-groups of the view (none before the pass, none in the placeholder)
RowGroups == IF featuresView.state = "table" THEN featuresView.groups ELSE <<>>

\* C12: of two rendered row-groups, the one rendered first has strictly more
\* combinations, or as many and a display name that does not come after the
\* other's under the name comparison.
RowGroupSort ==
    \A g \in 1..Len(RowGroups), h \in 1..Len(RowGroups) :
        g < h =>
            \/ RowGroups[g].count > RowGroups[h].count
            \/ /\ RowGroups[g].count = RowGroups[h].count
               /\ localeCompare(RowGroups[g].name, RowGroups[h].name) <= 0

\* C12 witness: xcode was stored first and vscode last, yet VS Code (two
\* combinations) is rendered before Cursor and Xcode (one each), which are
\* in name order
RowGroupSortWitness ==
    /\ Len(RowGroups) = 3
    /\ [g \in 1..3 |-> RowGroups[g].name] = <<"VS Code", "Cursor", "Xcode">>
    /\ [g \in 1..3 |-> RowGroups[g].count] = <<2, 1, 1>>
    /\ [i \in 1..3 |-> ides[i][1]] = <<"xcode", "cursor", "vscode">>

\* the columns and the data rows of the view, in rendering order
FeatureColumns == IF featuresView.state = "table" THEN featuresView.columns ELSE <<>>

RenderedRows == Flatten([g \in 1..Len(RowGroups) |-> RowGroups[g].rows])

CombinationKeys == [i \in 1..Len(getClientCombinations) |-> getClientCombinations[i].key]

Occurrences(s, x) == Cardinality({i \in 1..Len(s) : s[i] = x})

\* the feature has a support value for the key
HasStat(feature, key) == "stats" \in DOMAIN feature /\ key \in DOMAIN feature.stats

\* C13: once the feature pass has run, the columns are the loaded features,
\* the rows are the combinations (each once, none for a key that only a
\* stats or sources map names), every row has one cell per column, and a
\* cell whose feature has no support value for the row's key is rendered
\* as unknown without a note; the pass has run to its end.
DanglingTolerance ==
    "features" \in Range(renderLog) =>
        /\ featuresView # NotRendered
        /\ Len(RenderedRows) * Len(FeatureColumns) = Len(getClientCombinations) * Cardinality(DOMAIN features)
        /\ RenderedRows # <<>> =>
              /\ {FeatureColumns[j].key : j \in 1..Len(FeatureColumns)} = DOMAIN features
              /\ Len(FeatureColumns) = Cardinality(DOMAIN features)
              /\ \A k \in Range(CombinationKeys) \cup {RenderedRows[r].key : r \in 1..Len(RenderedRows)} :
                    Occurrences([r \in 1..Len(RenderedRows) |-> RenderedRows[r].key], k) = Occurrences(CombinationKeys, k)
        /\ \A r \in 1..Len(RenderedRows) :
              /\ Len(RenderedRows[r].cells) = Len(FeatureColumns)
              /\ \A j \in 1..Len(FeatureColumns) :
                    /\ RenderedRows[r].cells[j].dataset.comboKey = RenderedRows[r].key
                    /\ ~HasStat(features[FeatureColumns[j].key], RenderedRows[r].key) =>
                          /\ RenderedRows[r].cells[j].class = "support-u"
                          /\ "note" \notin DOMAIN RenderedRows[r].cells[j].dataset

\* C13 witness: tools names the key ghost+cline of no combination and has no
\* value for cursor+native, roots has no stats map at all, and the view has
\* a row for cursor+native with two unknown cells
DanglingToleranceWitness ==
    /\ featuresView.state = "table"
    /\ DOMAIN features = {"tools", "roots"}
    /\ "ghost+cline" \in DOMAIN features["tools"].stats
    /\ "cursor+native" \notin DOMAIN features["tools"].stats
    /\ "stats" \notin DOMAIN features["roots"]
    /\ \E r \in 1..Len(RenderedRows) :
          /\ RenderedRows[r].key = "cursor+native"
          /\ RenderedRows[r].cells[1].class = "support-u"
          /\ RenderedRows[r].cells[2].class = "support-u"

----------------------------------------------------------------------------
(* Properties of the changelog, under Spec.                                *)

\* the articles of the view (none before the pass, none in the placeholder)
Articles == IF changelogView.state = "list" THEN changelogView.articles ELSE <<>>

\* the entries the changelog fetch answered (none when it failed)
LoadedEntries ==
    IF <<"changelog", "changelog">> \in DOMAIN answers /\ answers[<<"changelog", "changelog">>] # Null
    THEN EntriesOf(answers[<<"changelog", "changelog">>])
    ELSE <<>>

Dated(entry) == DateValue(EntryDate(entry)) # Undefined

\* C14: once the changelog pass has run, the articles are a permutation of
\* the loaded entries; of two articles with different dates the later one
\* comes first; articles of one date are in their order in the source list;
\* and the loaded list is as it was fetched.
ChangelogOrder ==
    "changelog" \in Range(renderLog) =>
        /\ Len(Articles) = Len(LoadedEntries)
        /\ \A e \in Range(LoadedEntries) \cup Range(Articles) : Occurrences(Articles, e) = Occurrences(LoadedEntries, e)
        /\ \A i \in 1..Len(Articles), j \in 1..Len(Articles) :
              (i < j /\ Dated(Articles[i]) /\ Dated(Articles[j])) =>
                  /\ DateValue(EntryDate(Articles[i]))[1] >= DateValue(EntryDate(Articles[j]))[1]
                  /\ DateValue(EntryDate(Articles[i])) = DateValue(EntryDate(Articles[j]))
                        => IndexOf(LoadedEntries, Articles[i]) < IndexOf(LoadedEntries, Articles[j])
        /\ EntriesOf(changelog) = LoadedEntries

----------------------------------------------------------------------------
(* Properties of the overlay's close controls, under SpecUI.               *)

\* the step is a click on a displayed feature cell
CellClicked ==
    \E g \in 1..Len(IDE_FILES), r \in 1..Len(AI_CLIENT_FILES), j \in 1..Len(FEATURE_FILES) : ClickFeatureCell(g, r, j)

\* C15: with the overlay active, a click on its close control, a click on
\* the backdrop itself and the Escape key each leave it not active, and a
\* click inside its content leaves it active; a close event with no overlay
\* or with an inactive one changes nothing of it; a cell click leaves it
\* active (again).
OverlayClose ==
    [][ /\ (modal.active /\ (ClickModalClose \/ ClickBackdrop \/ PressEscape)) => ~modal'.active
        /\ (modal.active /\ ClickModalContent) => modal'.active
        /\ (~modal.active /\ (ClickModalClose \/ ClickBackdrop \/ PressEscape)) => (modal' = modal /\ listeners' = listeners)
        /\ CellClicked => modal'.active ]_vars

----------------------------------------------------------------------------
(* Progress of the load, under SpecLive.                                   *)

AllPasses == <<"plugins", "features", "changelog">>

\* C16: once every fetch has settled, the three render passes eventually
\* have run, each once and in the order plugin matrix, feature matrix,
\* changelog; while a fetch is unsettled no pass has run; a resource that
\* has settled is never fetched again.
LoadProgress ==
    /\ (pc # "start" /\ pending = {}) ~> (renderLog = AllPasses)
    /\ [](\E n \in 0..Len(AllPasses) : renderLog = SubSeq(AllPasses, 1, n))
    /\ []((pc = "start" \/ pending # {}) => renderLog = <<>>)
    /\ [][(pending' \subseteq pending) \/ (pc = "start" /\ pending' = Resources)]_vars

\* C16 witness: the three passes have run, in order, after a load in which
\* some fetches failed
LoadProgressWitness ==
    /\ renderLog = AllPasses
    /\ pc = "ready"
    /\ DOMAIN answers = Resources
    /\ Failed # {}
    /\ Succeeded # {}

----------------------------------------------------------------------------
(* The data after the load, under SpecUI.                                  *)

\* C17: once loadAllData has returned, no step (a render pass, a header
\* click, a cell click, a close, a tooltip click) changes the interfaces,
\* the AI clients, the features or the changelog, and getClientCombinations
\* returns the same ordered list (the same keys, the same records) after
\* the step as before it.
DataReadOnly ==
    [][ (pc \in AfterLoad) =>
            (/\ ides' = ides
             /\ aiClients' = aiClients
             /\ features' = features
             /\ changelog' = changelog
             /\ getClientCombinations' = getClientCombinations) ]_vars

\* C17 witness: every pass has run and the user has opened the overlay,
\* expanded a group and shown a tooltip; the changelog is rendered in
\* another order than the loaded list, which is as it was fetched
DataReadOnlyWitness ==
    /\ pc = "ready"
    /\ modal.active
    /\ expanded # {}
    /\ showNote # {}
    /\ changelogView.state = "list"
    /\ changelogView.articles # changelog.entries
    /\ changelog = answers[<<"changelog", "changelog">>]
    /\ CombinationKeys # <<>>

----------------------------------------------------------------------------
(* The tables of the plugin-availability view, under Spec.                 *)

PluginColumns == IF pluginsView.state = "table" THEN pluginsView.columns ELSE <<>>

\* the loaded interfaces of one group, in enumeration order
EcosystemIds ==
    LET eco(id) == IdeOf(id) # Null /\ ~IsNativeOnly(IdeOf(id)) IN SelectSeq(IDE_FILES, eco)

NativeOnlyIds ==
    LET nat(id) == IdeOf(id) # Null /\ IsNativeOnly(IdeOf(id)) IN SelectSeq(IDE_FILES, nat)

\* where the plugin-ecosystem interfaces name a client: <<place of the
\* interface in the enumeration, place of the client in its list>>
Mentions(c) ==
    UNION { {<<i, j>> : j \in {x \in 1..Len(IdeOf(IDE_FILES[i]).compatible_ai_clients) :
                                    IdeOf(IDE_FILES[i]).compatible_ai_clients[x] = c}} :
            i \in {y \in 1..Len(IDE_FILES) : Contains(EcosystemIds, IDE_FILES[y])} }

Earlier(p, q) == p[1] < q[1] \/ (p[1] = q[1] /\ p[2] < q[2])

FirstMention(c) == CHOOSE p \in Mentions(c) : \A q \in Mentions(c) : p = q \/ Earlier(p, q)

\* C18: when the tables are rendered, the rows of the plugin-ecosystem
\* table are the plugin-ecosystem interfaces in enumeration order; its
\* columns after "Native" are the non-native identifiers those interfaces
\* name, each once, in the order of their first mention; a cell is a
\* checkmark iff its column's client (or "native") is in the row's list;
\* the native-only table has the other loaded interfaces, all supported.
PluginTable ==
    pluginsView.state = "table" =>
        /\ [k \in 1..Len(EcosystemRows) |-> EcosystemRows[k].ideId] = EcosystemIds
        /\ [k \in 1..Len(NativeOnlyRows) |-> NativeOnlyRows[k].ideId] = NativeOnlyIds
        /\ \A a \in 1..Len(PluginColumns), b \in 1..Len(PluginColumns) :
              a < b => (PluginColumns[a] # PluginColumns[b]
                          /\ Earlier(FirstMention(PluginColumns[a]), FirstMention(PluginColumns[b])))
        /\ Range(PluginColumns) =
              UNION {Range(IdeOf(EcosystemIds[k]).compatible_ai_clients) : k \in 1..Len(EcosystemIds)} \ {"native"}
        /\ \A k \in 1..Len(EcosystemRows) :
              /\ Len(EcosystemRows[k].cells) = Len(PluginColumns)
              /\ EcosystemRows[k].native.supported
                    <=> Contains(IdeOf(EcosystemRows[k].ideId).compatible_ai_clients, "native")
              /\ \A a \in 1..Len(PluginColumns) :
                    EcosystemRows[k].cells[a]
                        <=> Contains(IdeOf(EcosystemRows[k].ideId).compatible_ai_clients, PluginColumns[a])
        /\ \A k \in 1..Len(NativeOnlyRows) : NativeOnlyRows[k].native.supported

\* C18 witness: three plugin-ecosystem interfaces name cline three times and
\* jetbrains-ai once; the columns are cline, jetbrains-ai; xcode has a cross
\* under Native and under jetbrains-ai
PluginTableWitness ==
    /\ pluginsView.state = "table"
    /\ EcosystemIds = IDE_FILES
    /\ PluginColumns = <<"cline", "jetbrains-ai">>
    /\ EcosystemRows[2].cells = <<TRUE, FALSE>>
    /\ ~EcosystemRows[3].native.supported
    /\ EcosystemRows[3].cells = <<TRUE, FALSE>>

----------------------------------------------------------------------------
(* The views as functions of what the fetches answered, under Spec.        *)

\* the document the fetch of ides/<id>.json answered, Null for a failure
AnsweredIde(id) == Get(answers, <<"ides", id>>)

\* the store `ides` when the interface fetches complete in the order of
\* IDE_FILES, one of the orders in which they may complete
StoreInEnumerationOrder ==
    LET answered(id) == AnsweredIde(id) # Null
        kept == SelectSeq(IDE_FILES, answered)
    IN [i \in 1..Len(kept) |-> <<kept[i], AnsweredIde(kept[i])>>]

\* the feature view renderFeaturesMatrix makes of that store
FeaturesViewInEnumerationOrder ==
    FeaturesMatrixHtml(Combinations(StoreInEnumerationOrder, aiClients),
                       SortGroups(groupedByIde(Combinations(StoreInEnumerationOrder, aiClients))))

\* the rows of the two plugin tables and the columns, from the answers alone
AnsweredRows(eco) ==
    LET mine(id) == AnsweredIde(id) # Null /\ (hasPlugins(CompatibleClients(AnsweredIde(id))) <=> eco)
    IN SelectSeq(IDE_FILES, mine)

AnsweredColumns ==
    LET notNative(c) == c # "native"
    IN Distinct(Flatten([i \in 1..Len(AnsweredRows(TRUE)) |->
                            SelectSeq(CompatibleClients(AnsweredIde(AnsweredRows(TRUE)[i])), notNative)]))

PluginsViewTimingFree ==
    pluginsView.state = "table" =>
        /\ [k \in 1..Len(pluginsView.ecosystem) |-> pluginsView.ecosystem[k].ideId] = AnsweredRows(TRUE)
        /\ [k \in 1..Len(pluginsView.nativeOnly) |-> pluginsView.nativeOnly[k].ideId] = AnsweredRows(FALSE)
        /\ pluginsView.columns = AnsweredColumns

FeaturesViewTimingFree ==
    featuresView # NotRendered => featuresView = FeaturesViewInEnumerationOrder

ChangelogViewTimingFree ==
    changelogView.state = "list" =>
        changelogView.articles \in SortOutcomes(EntriesOf(Get(answers, <<"changelog", "changelog">>)))

\* C19: each rendered view is fixed by what the fetches answered, whatever
\* the order in which they completed: the plugin tables have the rows and
\* columns the answers give, the feature view is the one rendered when the
\* fetches complete in enumeration order (groups, and rows in each group),
\* and the changelog is a sort of the answered entries.
FetchTimingIndependence ==
    /\ PluginsViewTimingFree
    /\ FeaturesViewTimingFree
    /\ ChangelogViewTimingFree

====
